---- MODULE Spec2Model ----
(***************************************************************************)
(* Tool-calling orchestration of the universal data connector:            *)
(*   backend/app/main.py        chat_endpoint (the conversation controller)*)
(*   backend/app/llm_client.py  call_model, extract_function_call          *)
(*   backend/app/functions.py   registry, dispatcher, tools, audit log     *)
(*   backend/app/utils/normalizers.py  date, city and currency normalizers *)
(*                                                                         *)
(* Data representation.  A Python string that a normalizer inspects is a   *)
(* record [pad, words]: pad says whether it carries leading or trailing    *)
(* whitespace, words is the sequence of its words, each [base, cap] (the   *)
(* lower-cased letters and the capitalisation).  The empty string is       *)
(* [pad |-> FALSE, words |-> <<>>].  A date string is a record             *)
(* [form, pad, y, m, d]: the syntactic form it is written in and the       *)
(* numbers it spells.  A Python exception is a record [exc, msg].          *)
(***************************************************************************)
EXTENDS Integers, Sequences, FiniteSets, TLC

\* Bounds of the model.
MaxTurns == 2
MaxArticles == 2

----------------------------------------------------------------------------
(* Results of calls that may raise *)

Ok(v) == [ok |-> TRUE, val |-> v]
Raise(exc, msg) == [ok |-> FALSE, exc |-> exc, msg |-> msg]

----------------------------------------------------------------------------
(* utils/normalizers.py *)

Str(pad, words) == [pad |-> pad, words |-> words]
Word(base, cap) == [base |-> base, cap |-> cap]
EmptyStr == Str(FALSE, <<>>)

\* Python truthiness of a string: only "" is falsy (whitespace is truthy).
Falsy(s) == s.words = <<>> /\ ~s.pad

Recap(words, cap) == [i \in DOMAIN words |-> Word(words[i].base, cap)]

\* re.sub(r"\bcity\b", "", s, flags=re.IGNORECASE)
RemoveCityWord(words) == SelectSeq(words, LAMBDA w : w.base # "city")

normalize_city(city) ==
    IF Falsy(city)
    THEN Raise("ValueError", "City cannot be empty.")
    ELSE Ok(Str(FALSE, Recap(RemoveCityWord(city.words), "title")))

normalize_currency(code) ==
    IF Falsy(code)
    THEN Raise("ValueError", "Currency cannot be empty.")
    ELSE Ok(Str(FALSE, Recap(code.words, "upper")))

\* The calendar of datetime.date
IsLeap(y) == (y % 4 = 0 /\ y % 100 # 0) \/ y % 400 = 0

DaysInMonth(y, m) ==
    IF m = 2 THEN (IF IsLeap(y) THEN 29 ELSE 28)
    ELSE IF m \in {4, 6, 9, 11} THEN 30 ELSE 31

ValidDate(y, m, d) ==
    /\ y \in 1..9999
    /\ m \in 1..12
    /\ d \in 1..DaysInMonth(y, m)

DateStr(form, pad, y, m, d) == [form |-> form, pad |-> pad, y |-> y, m |-> m, d |-> d]

\* date.isoformat(): the canonical YYYY-MM-DD string of a date
IsoFormat(y, m, d) == DateStr("iso", FALSE, y, m, d)

\* datetime.now().date(): the local date of the run
Today == [y |-> 2026, m |-> 2, d |-> 19]

\* date + timedelta(days=1)
NextDay(t) ==
    IF t.d < DaysInMonth(t.y, t.m) THEN [y |-> t.y, m |-> t.m, d |-> t.d + 1]
    ELSE IF t.m < 12 THEN [y |-> t.y, m |-> t.m + 1, d |-> 1]
    ELSE [y |-> t.y + 1, m |-> 1, d |-> 1]

\* datetime(year, month, day).date().isoformat(), with datetime's errors
DateOf(year, month, day) ==
    IF ValidDate(year, month, day)
    THEN Ok(IsoFormat(year, month, day))
    ELSE IF year \notin 1..9999
    THEN Raise("ValueError", "year is out of range")
    ELSE IF month \notin 1..12
    THEN Raise("ValueError", "month must be in 1..12")
    ELSE Raise("ValueError", "day is out of range for month")

\* A mutant of DayMonthYear: the first number is read as the month.
DayMonthYear_MonthFirst(first, second, yyyy) == DateOf(yyyy, first, second)

\* lines 46-48: dd, mm, yyyy = m.groups(); datetime(int(yyyy), int(mm), int(dd))
DayMonthYear(first, second, yyyy) == DateOf(yyyy, second, first)

\* Forms of a date string:
\*   "empty"     no characters besides (with pad) whitespace
\*   "today", "tomorrow"   the literal, in any letter case
\*   "iso"       YYYY-MM-DD
\*   "dmy"       D-M-YYYY or D/M/YYYY, one or two digits for day and month
\*   "d_mon_y"   19 Feb 2026 or 19 February 2026
\*   "mon_d_y"   Feb 19 2026 or February 19 2026
\*   "other"     anything else
normalize_date(date_str) ==
    IF date_str.form = "empty" /\ ~date_str.pad
    THEN Raise("ValueError", "Date cannot be empty.")
    ELSE IF date_str.form = "today"
    THEN Ok(IsoFormat(Today.y, Today.m, Today.d))
    ELSE IF date_str.form = "tomorrow"
    THEN Ok(IsoFormat(NextDay(Today).y, NextDay(Today).m, NextDay(Today).d))
    \* datetime.fromisoformat(date_str): the string as given, not stripped
    ELSE IF /\ date_str.form = "iso"
            /\ ~date_str.pad
            /\ ValidDate(date_str.y, date_str.m, date_str.d)
    THEN Ok(IsoFormat(date_str.y, date_str.m, date_str.d))
    \* re.match on the stripped string, then datetime(yyyy, mm, dd) uncaught
    ELSE IF date_str.form = "dmy"
    THEN DayMonthYear(date_str.d, date_str.m, date_str.y)
    \* datetime.strptime(date_str.strip(), fmt) for the four textual formats
    ELSE IF /\ date_str.form \in {"d_mon_y", "mon_d_y"}
            /\ ValidDate(date_str.y, date_str.m, date_str.d)
    THEN Ok(IsoFormat(date_str.y, date_str.m, date_str.d))
    ELSE Raise("ValueError", "Invalid date format. Use YYYY-MM-DD or today/tomorrow.")

----------------------------------------------------------------------------
(* functions.py: the audit log, the tools, the registry, the dispatcher *)

\* What the services behind a tool do during one tool run:
\*   weather_key, news_key   whether OPENWEATHER_API_KEY / NEWSAPI_KEY are set
\*   geo        the geocoding request of the weather tool
\*   http       the tool's data request (current weather, forecast, news, rates)
\*   in_window  whether the forecast covers the requested date
\*   articles   how many articles the news provider holds for the query
GeoOutcomes == {"unreachable", "non200", "no_match", "ok"}
HttpOutcomes == {"unreachable", "non200_json", "non200_not_json", "ok"}

EnvType ==
    [weather_key : BOOLEAN, news_key : BOOLEAN, geo : GeoOutcomes,
     http : HttpOutcomes, in_window : BOOLEAN, articles : 0..MaxArticles]

\* The environments that differ in something a tool run reads: a later request
\* varies only where the earlier ones let the run reach it.
WeatherEnvs ==
    { e \in EnvType :
        /\ e.news_key /\ e.articles = 0
        /\ (~e.weather_key => e.geo = "ok")
        /\ (~e.weather_key \/ e.geo # "ok" => e.http = "ok")
        /\ (e.http # "ok" => e.in_window) }

NewsEnvs ==
    { e \in EnvType :
        /\ e.weather_key /\ e.geo = "ok" /\ e.in_window
        /\ (~e.news_key => e.http = "ok")
        /\ (e.http # "ok" => e.articles = 0) }

Envs == WeatherEnvs \cup NewsEnvs

\* The row log_call inserts (ts_utc left out): the name and the JSON texts of
\* the arguments and of the result, as passed by the caller of log_call.
log_call(function_name, arguments, result) ==
    [function_name |-> function_name, arguments_json |-> arguments, result_json |-> result]

\* What a tool run does: it returns a result or raises, having inserted the
\* rows logs and made the requests reqs (each [service, outcome]), in order.
ToolReturn(result, logs, reqs) ==
    [ok |-> TRUE, val |-> result, logs |-> logs, requests |-> reqs]
ToolRaise(exc, msg, reqs) ==
    [ok |-> FALSE, exc |-> exc, msg |-> msg, logs |-> <<>>, requests |-> reqs]
Logged(function_name, arguments, result, reqs) ==
    ToolReturn(result, <<log_call(function_name, arguments, result)>>, reqs)

Request(service, outcome) == [service |-> service, outcome |-> outcome]

\* _geocode_city: None when the key is missing, the status is not 200 or
\* nothing matches; raises when the request itself fails (requests.get is not
\* in a try).
geocode_city(city, env) ==
    IF ~env.weather_key THEN Ok("None")
    ELSE IF env.geo = "unreachable" THEN Raise("ConnectionError", "request failed")
    ELSE IF env.geo \in {"non200", "no_match"} THEN Ok("None")
    ELSE Ok("geo")

\* lines 116-190 of get_weather_for_date: the current-weather or the forecast
\* request for the ISO date d, after the geocoding request.
WeatherData(logged, d, env) ==
    LET target == [y |-> d.y, m |-> d.m, d |-> d.d]
        service == IF target = Today THEN "weather" ELSE "forecast"
        reqs == <<Request("geocode", env.geo), Request(service, env.http)>>
    IN
    IF env.http = "unreachable"
    THEN ToolRaise("ConnectionError", "request failed", reqs)
    \* r.json() of an error body that is not JSON
    ELSE IF env.http = "non200_not_json"
    THEN ToolRaise("JSONDecodeError", "body is not JSON", reqs)
    ELSE IF env.http = "non200_json"
    THEN Logged("get_weather_for_date", logged, [error |-> "provider error body"], reqs)
    ELSE IF target = Today
    THEN Logged("get_weather_for_date", logged, [date |-> d, type |-> "current"], reqs)
    ELSE IF ~env.in_window
    THEN Logged("get_weather_for_date", logged,
                [error |-> "Requested date is outside the available forecast window"],
                reqs)
    ELSE Logged("get_weather_for_date", logged, [date |-> d, type |-> "forecast"], reqs)

get_weather_for_date(args, env) ==
    LET c == normalize_city(args.city) IN
    IF ~c.ok THEN ToolRaise(c.exc, c.msg, <<>>) ELSE
    LET d == normalize_date(args.date) IN
    IF ~d.ok THEN ToolRaise(d.exc, d.msg, <<>>) ELSE
    LET logged == [city |-> c.val, date |-> d.val] IN
    IF ~env.weather_key
    THEN Logged("get_weather_for_date", logged,
                [error |-> "Missing OPENWEATHER_API_KEY in environment"], <<>>)
    ELSE
    LET geo == geocode_city(c.val, env) IN
    IF ~geo.ok THEN ToolRaise(geo.exc, geo.msg, <<Request("geocode", env.geo)>>)
    ELSE IF geo.val = "None"
    THEN Logged("get_weather_for_date", logged, [error |-> "Could not geocode city"],
                <<Request("geocode", env.geo)>>)
    ELSE WeatherData(logged, d.val, env)

DefaultPageSize == 5
MinPageSize == 1
MaxPageSize == 20

Min(a, b) == IF a < b THEN a ELSE b
Max(a, b) == IF a > b THEN a ELSE b

\* A mutant of PageSizeParam: no lower limit.
PageSizeParam_NoFloor(page_size) == Min(page_size, MaxPageSize)

\* params["pageSize"]
PageSizeParam(page_size) == Max(MinPageSize, Min(page_size, MaxPageSize))

\* data.get("articles", [])[: params["pageSize"]]
TakeArticles(n, pageSize) == [i \in 1..Min(n, pageSize) |-> [title |-> i]]

get_news_for_city(args, env) ==
    LET c == normalize_city(args.city) IN
    IF ~c.ok THEN ToolRaise(c.exc, c.msg, <<>>) ELSE
    LET page_size == IF "page_size" \in DOMAIN args THEN args.page_size ELSE DefaultPageSize
        logged == [city |-> c.val, page_size |-> page_size]
        reqs == <<[service |-> "news", outcome |-> env.http,
                   pageSize |-> PageSizeParam(page_size)]>>
    IN
    IF ~env.news_key
    THEN Logged("get_news_for_city", logged,
                [error |-> "Missing NEWSAPI_KEY in environment"], <<>>)
    ELSE IF env.http = "unreachable"
    THEN ToolRaise("ConnectionError", "request failed", reqs)
    ELSE IF env.http = "non200_not_json"
    THEN ToolRaise("JSONDecodeError", "body is not JSON", reqs)
    ELSE IF env.http = "non200_json"
    THEN Logged("get_news_for_city", logged, [error |-> "provider error body"], reqs)
    ELSE
    LET articles == TakeArticles(env.articles, PageSizeParam(page_size)) IN
    Logged("get_news_for_city", logged,
           [city |-> c.val, count |-> Len(articles), articles |-> articles], reqs)

convert_currency(args, env) ==
    LET b == normalize_currency(args.base) IN
    IF ~b.ok THEN ToolRaise(b.exc, b.msg, <<>>) ELSE
    LET t == normalize_currency(args.target)
        reqs == <<Request("rates", env.http)>>
    IN
    IF ~t.ok THEN ToolRaise(t.exc, t.msg, <<>>)
    \* requests.get and r.json() are inside the try
    ELSE IF env.http \in {"unreachable", "non200_not_json"}
    THEN ToolReturn([error |-> "Currency request failed"], <<>>, reqs)
    ELSE IF env.http = "non200_json"
    THEN ToolReturn([error |-> "provider error body"], <<>>, reqs)
    ELSE ToolReturn([amount |-> args.amount, base |-> b.val, target |-> t.val,
                     has_rate |-> args.amount # 0], <<>>, reqs)

\* FUNCTION_REGISTRY: per tool, the keys of parameters.properties and the
\* "required" list of the schema.
FUNCTION_REGISTRY ==
    [get_weather_for_date |->
        [properties |-> {"city", "date"}, required |-> {"city", "date"}],
     get_news_for_city |->
        [properties |-> {"city", "page_size"}, required |-> {"city"}],
     convert_currency |->
        [properties |-> {"amount", "base", "target"},
         required |-> {"amount", "base", "target"}]]

ToolNames == DOMAIN FUNCTION_REGISTRY

\* The parameters without a default in each callable's def line: a call that
\* lacks one raises TypeError before the body runs.
Positional(name) ==
    CASE name = "get_weather_for_date" -> {"city", "date"}
      [] name = "get_news_for_city" -> {"city"}
      [] name = "convert_currency" -> {"amount", "base", "target"}

\* FUNCTION_REGISTRY[name]["callable"](**cleaned_args)
Callable(name, cleaned_args, env) ==
    CASE name = "get_weather_for_date" -> get_weather_for_date(cleaned_args, env)
      [] name = "get_news_for_city" -> get_news_for_city(cleaned_args, env)
      [] name = "convert_currency" -> convert_currency(cleaned_args, env)

\* A mutant of CleanArgs: the arguments are passed on unfiltered.
CleanArgs_PassThrough(name, arguments) == arguments

\* cleaned_args: the schema's keys that the arguments hold
CleanArgs(name, arguments) ==
    [k \in (FUNCTION_REGISTRY[name].properties \cap DOMAIN arguments) |-> arguments[k]]

NoArgs == [k \in {} |-> 0]

\* A mutant of UnknownFunction: the unknown name is answered with an error
\* result instead of an exception.
UnknownFunction_ErrorResult(name, arguments) ==
    ToolReturn([error |-> "Unknown function"], <<>>, <<>>)

\* lines 319-320: raise ValueError(f"Unknown function: {name}")
UnknownFunction(name, arguments) ==
    ToolRaise("ValueError", "Unknown function", <<>>)

\* call_function_by_name: [ok, val | exc, msg, logs, invoked, cleaned_args];
\* invoked says whether the executable's body ran, cleaned_args what it was
\* called with.
call_function_by_name(name, arguments, env) ==
    IF name \notin DOMAIN FUNCTION_REGISTRY
    THEN UnknownFunction(name, arguments)
            @@ [invoked |-> FALSE, cleaned_args |-> NoArgs]
    ELSE
    LET cleaned_args == CleanArgs(name, arguments) IN
    IF ~(Positional(name) \subseteq DOMAIN cleaned_args)
    THEN ToolRaise("TypeError", "missing required positional argument", <<>>)
            @@ [invoked |-> FALSE, cleaned_args |-> cleaned_args]
    ELSE Callable(name, cleaned_args, env)
            @@ [invoked |-> TRUE, cleaned_args |-> cleaned_args]

----------------------------------------------------------------------------
(* llm_client.py: the model gateway *)

\* Message contents: a text, Python's None, or the text json.dumps(v) of a value.
Text(t) == [text |-> t]
None == [none |-> TRUE]
JsonDumps(v) == [json |-> v]

SystemMsg(t) == [role |-> "system", content |-> Text(t)]

\* The system message call_model puts first when functions are given.
ToolInstruction == SystemMsg("You are a STRICT tool-calling assistant.")

\* messages[1:]
Rest(messages) == SubSeq(messages, 2, Len(messages))

\* A mutant of Payload: the first message is replaced by the tool instruction
\* in every call, with or without functions.
Payload_AlwaysInstructs(messages, functions) ==
    <<ToolInstruction>> \o Rest(messages)

\* The "messages" of the payload call_model posts.
Payload(messages, functions) ==
    IF functions THEN <<ToolInstruction>> \o Rest(messages) ELSE messages

\* What the model backend does with one request: it answers with a reply whose
\* content is some text, or the request fails (transport error or error status,
\* raised by requests.post / raise_for_status).
BackendFailures == {"unreachable", "http_error"}

\* call_model(messages, functions) against a backend outcome b: the reply
\* r.json() or the exception.
call_model(messages, functions, b) ==
    IF b.failure \in BackendFailures
    THEN Raise("RequestException", "model backend request failed")
    ELSE Ok([message |-> [role |-> "assistant", content |-> b.content]])

\* A reply content is described by what json.loads makes of it:
\*   [json |-> "invalid"]   not JSON (prose): json.loads raises
\*   [json |-> "list" | "number" | "string" | "null"]   JSON, not an object
\*   [json |-> "object", obj |-> o]   a JSON object, o maps its keys
\* The value under "tool" is JNull or JStr(s); under "arguments" a mapping.
JNull == [null |-> TRUE]
JStr(s) == [str |-> s]

NoCall == [none |-> TRUE]

\* Python truthiness of the value under "tool"
Truthy(v) == v # JNull /\ v.str # ""

extract_function_call(response) ==
    LET content == response.message.content IN
    IF content.json = "invalid" THEN Ok(NoCall)
    ELSE IF content.json # "object"
    THEN Raise("AttributeError", "object has no attribute 'get'")
    ELSE
    LET parsed == content.obj
        tool == IF "tool" \in DOMAIN parsed THEN parsed.tool ELSE JNull
    IN
    IF Truthy(tool)
    THEN Ok([name |-> tool.str,
             arguments |-> IF "arguments" \in DOMAIN parsed
                           THEN parsed.arguments ELSE NoArgs])
    ELSE Ok(NoCall)

----------------------------------------------------------------------------
(* The inputs of the model: user messages, model replies, tool arguments *)

Pune == Str(FALSE, <<Word("pune", "title")>>)
PuneCityPadded == Str(TRUE, <<Word("pune", "title"), Word("city", "lower")>>)
Inr == Str(FALSE, <<Word("inr", "lower")>>)
Usd == Str(FALSE, <<Word("usd", "upper")>>)

DToday == DateStr("today", FALSE, 0, 0, 0)
DIsoToday == DateStr("iso", FALSE, 2026, 2, 19)
DDmyTomorrow == DateStr("dmy", FALSE, 2026, 2, 20)
DOther == DateStr("other", FALSE, 0, 0, 0)
DEmpty == DateStr("empty", FALSE, 0, 0, 0)

\* The argument mappings a model reply may carry.
RawArguments ==
    { NoArgs,
      [city |-> PuneCityPadded, date |-> DToday],
      [city |-> Pune, date |-> DIsoToday, extra |-> 1],
      [city |-> Pune, date |-> DDmyTomorrow],
      [city |-> EmptyStr, date |-> DToday],
      [city |-> Pune, date |-> DOther],
      [city |-> Pune, date |-> DEmpty],
      [city |-> Pune],
      [city |-> PuneCityPadded, page_size |-> 25, extra |-> 1],
      [city |-> Pune, page_size |-> 0],
      [amount |-> 500, base |-> Inr, target |-> Usd],
      [amount |-> 0, base |-> Usd, target |-> Inr, extra |-> 1],
      [amount |-> 500, base |-> EmptyStr, target |-> Usd],
      [amount |-> 500, base |-> Inr, target |-> EmptyStr],
      [amount |-> 500, base |-> Inr] }

\* The names a reply may put under "tool": the registered ones and one other.
ReplyToolNames == ToolNames \cup {"get_stock_price"}

ToolCallReplies ==
    { [json |-> "object", obj |-> [tool |-> JStr(n), arguments |-> a]] :
        n \in ReplyToolNames, a \in RawArguments }
    \cup { [json |-> "object", obj |-> [tool |-> JStr(n)]] : n \in ReplyToolNames }

NoToolReplies ==
    { [json |-> "invalid"],
      [json |-> "list"], [json |-> "number"], [json |-> "string"], [json |-> "null"],
      [json |-> "object", obj |-> [final |-> Text("Hello!")]],
      [json |-> "object", obj |-> [tool |-> JNull, final |-> Text("Hello!")]],
      [json |-> "object", obj |-> [tool |-> JStr("")]] }

\* Pass 1 may reply anything; pass 2 replies prose, or again a tool call.
FirstReplies == ToolCallReplies \cup NoToolReplies
SecondReplies ==
    { [json |-> "invalid"],
      [json |-> "object",
       obj |-> [tool |-> JStr("get_news_for_city"), arguments |-> [city |-> Pune]]] }

Backend(replies) ==
    { [failure |-> "none", content |-> c] : c \in replies }
    \cup { [failure |-> f, content |-> None] : f \in BackendFailures }

\* payload.message: the model's reply does not depend on it in this model, so
\* one text stands for all.
UserMessages == {"What's the weather in Pune today?"}

----------------------------------------------------------------------------
(* main.py: chat_endpoint, one run per user turn *)

VARIABLES
    turn,        \* number of the turn being served
    pc,          \* where chat_endpoint stands
    visited,     \* the values pc has taken in this turn, in order
    messages,    \* the local list "messages"
    resp,        \* the first reply (resp), None before it
    fc,          \* extract_function_call(resp), NoCall when there is none
    result,      \* the dispatcher's return value, None before it
    outcome,     \* what the endpoint answered: kind none | direct | function_call | failure
    gateway,     \* the call_model calls of this turn: [messages, functions, sent, ok]
    dispatches,  \* the call_function_by_name calls of this turn, with what each did
    audit,       \* the rows of table function_calls, in insertion order
    audit_start  \* the audit log as it was when this turn began

\* The state of the other specifications of this module (further down): single
\* calls of a function, concurrent writers of the audit log, concurrent turns.
VARIABLES
    input,       \* the call being made: the function's name and its arguments
    output,      \* what the call returned, None before it
    db,          \* the audit database: its committed rows and who holds its write lock
    writers,     \* the log_call calls in progress, per writer
    flows,       \* the chat_endpoint runs in progress, per request
    convs        \* the "messages" lists of those runs

main == <<turn, pc, visited, messages, resp, fc, result, outcome, gateway,
          dispatches, audit, audit_start>>
side == <<input, output, db, writers, flows, convs>>
vars == <<main, side>>

SystemRole == SystemMsg("You are an assistant that can call tools to fetch data.")
FinalInstruction == SystemMsg("Now write a final user-friendly answer. Do NOT call any tool.")
UserMsg(message) == [role |-> "user", content |-> Text(message)]
\* A mutant of AssistantCallMsg: the assistant message does not record the call.
AssistantCallMsg_NoCall(call) == [role |-> "assistant", content |-> None]

AssistantCallMsg(call) == [role |-> "assistant", content |-> None, function_call |-> call]
FunctionMsg(name, res) == [role |-> "function", name |-> name, content |-> JsonDumps(res)]

NoOutcome == [kind |-> "none"]
\* An exception leaving the endpoint: HTTPException(500) or an unhandled one,
\* either way the server's response has status 500.
Failure(detail) == [kind |-> "failure", status |-> 500, detail |-> detail]

\* One call of call_model: what it was given, what it posted, whether the
\* backend answered and with what content.
GatewayCall(msgs, functions, r) ==
    [messages |-> msgs, functions |-> functions,
     sent |-> Payload(msgs, functions), ok |-> r.ok,
     reply |-> IF r.ok THEN r.val.message.content ELSE None]

Goto(next) ==
    /\ pc' = next
    /\ visited' = Append(visited, next)

\* A mutant of Unhandled: the failure is swallowed and the step is attempted
\* again.
Unhandled_Retry(e) ==
    UNCHANGED <<pc, visited, outcome>>

\* A mutant of FunctionCallOutcome: the outcome reports the arguments the tool
\* was bound to instead of the parsed ones.
FunctionCallOutcome_BoundArgs(call, res, text) ==
    [kind |-> "function_call",
     function |-> call.name,
     function_args |-> dispatches[Len(dispatches)].ret.cleaned_args,
     function_result |-> res,
     response |-> text]

\* lines 65-71: the outcome of a turn that serviced a tool call
FunctionCallOutcome(call, res, text) ==
    [kind |-> "function_call",
     function |-> call.name,
     function_args |-> call.arguments,
     function_result |-> res,
     response |-> text]

\* An exception nothing in chat_endpoint catches: the server answers 500.
Unhandled(e) ==
    /\ outcome' = Failure(e.msg)
    /\ Goto("Failed")

\* A mutant of RaiseHTTPException: the failure is swallowed and the turn falls
\* back to the direct answer.
RaiseHTTPException_FallBack(e) ==
    /\ outcome' = outcome
    /\ Goto("DirectAnswer")

\* lines 46-47: except Exception as e: raise HTTPException(500, str(e))
RaiseHTTPException(e) ==
    /\ outcome' = Failure(e.msg)
    /\ Goto("Failed")

\* The other specifications' variables, at rest.
SideIdle ==
    /\ input = None
    /\ output = None
    /\ db = [rows |-> <<>>, lock |-> 0]
    /\ writers = <<>>
    /\ flows = <<>>
    /\ convs = <<>>

\* chat_endpoint about to serve its first request, the audit log empty.
MainIdle ==
    /\ turn = 1
    /\ pc = "Start"
    /\ visited = <<"Start">>
    /\ messages = <<>>
    /\ resp = None
    /\ fc = NoCall
    /\ result = None
    /\ outcome = NoOutcome
    /\ gateway = <<>>
    /\ dispatches = <<>>
    /\ audit = <<>>
    /\ audit_start = <<>>

Init == MainIdle /\ SideIdle

\* lines 24-35: the initial conversation
BuildConversation ==
    /\ pc = "Start"
    /\ \E message \in UserMessages :
         messages' = <<SystemRole, UserMsg(message)>>
    /\ Goto("AwaitingFirstModelReply")
    /\ UNCHANGED <<turn, resp, fc, result, outcome, gateway, dispatches, audit,
                   audit_start, side>>

\* lines 40-43: pass 1 and the parse of its reply
FirstModelReply ==
    /\ pc = "AwaitingFirstModelReply"
    /\ \E b \in Backend(FirstReplies) :
         LET r == call_model(messages, TRUE, b) IN
         /\ gateway' = Append(gateway, GatewayCall(messages, TRUE, r))
         /\ IF ~r.ok
            THEN /\ Unhandled(r)
                 /\ UNCHANGED <<resp, fc>>
            ELSE LET call == extract_function_call(r.val) IN
                 /\ resp' = r.val
                 /\ IF ~call.ok
                    THEN /\ Unhandled(call)
                         /\ UNCHANGED fc
                    ELSE /\ fc' = call.val
                         /\ outcome' = outcome
                         /\ Goto(IF call.val = NoCall THEN "DirectAnswer"
                                 ELSE "AwaitingToolExecution")
    /\ UNCHANGED <<turn, messages, result, dispatches, audit, audit_start, side>>

\* lines 73-75: the direct response
DirectAnswer ==
    /\ pc = "DirectAnswer"
    /\ outcome' = [kind |-> "direct", response |-> resp.message.content]
    /\ Goto("Done")
    /\ UNCHANGED <<turn, messages, resp, fc, result, gateway, dispatches, audit,
                   audit_start, side>>

\* lines 44-47: the dispatcher call; the tools insert into the audit log
ToolExecution ==
    /\ pc = "AwaitingToolExecution"
    /\ \E env \in Envs :
         LET r == call_function_by_name(fc.name, fc.arguments, env) IN
         /\ audit' = audit \o r.logs
         /\ dispatches' = Append(dispatches,
                [name |-> fc.name, arguments |-> fc.arguments,
                 ret |-> r, audit_before |-> audit])
         /\ IF r.ok
            THEN /\ result' = r.val
                 /\ outcome' = outcome
                 /\ Goto("AwaitingSecondModelReply")
            ELSE /\ RaiseHTTPException(r)
                 /\ UNCHANGED result
    /\ UNCHANGED <<turn, messages, resp, fc, gateway, audit_start, side>>

\* A mutant of SecondModelReply: a second reply that is again a tool call is
\* serviced too (tool chaining).
SecondModelReply_Chaining ==
    /\ pc = "AwaitingSecondModelReply"
    /\ LET msgs == messages \o <<AssistantCallMsg(fc), FunctionMsg(fc.name, result),
                                 FinalInstruction>>
       IN
       /\ messages' = msgs
       /\ \E b \in Backend(SecondReplies) :
            LET r == call_model(msgs, FALSE, b)
                call == IF r.ok THEN extract_function_call(r.val) ELSE Ok(NoCall)
            IN
            /\ gateway' = Append(gateway, GatewayCall(msgs, FALSE, r))
            /\ IF ~r.ok
               THEN Unhandled(r) /\ UNCHANGED fc
               ELSE IF call.ok /\ call.val # NoCall
               THEN /\ fc' = call.val
                    /\ outcome' = outcome
                    /\ Goto("AwaitingToolExecution")
               ELSE /\ outcome' = FunctionCallOutcome(fc, result,
                                                       r.val.message.content)
                    /\ Goto("Done")
                    /\ UNCHANGED fc
    /\ UNCHANGED <<turn, resp, result, dispatches, audit, audit_start, side>>

\* lines 49-71: the tool call and its result go into the conversation, pass 2
SecondModelReply ==
    /\ pc = "AwaitingSecondModelReply"
    /\ LET msgs == messages \o <<AssistantCallMsg(fc), FunctionMsg(fc.name, result),
                                 FinalInstruction>>
       IN
       /\ messages' = msgs
       /\ \E b \in Backend(SecondReplies) :
            LET r == call_model(msgs, FALSE, b) IN
            /\ gateway' = Append(gateway, GatewayCall(msgs, FALSE, r))
            /\ IF r.ok
               THEN /\ outcome' = FunctionCallOutcome(fc, result,
                                                       r.val.message.content)
                    /\ Goto("Done")
               ELSE Unhandled(r)
    /\ UNCHANGED <<turn, resp, fc, result, dispatches, audit, audit_start, side>>

\* The next request: a fresh run of chat_endpoint; the audit log stays.
NextTurn ==
    /\ pc \in {"Done", "Failed"}
    /\ turn < MaxTurns
    /\ turn' = turn + 1
    /\ pc' = "Start"
    /\ visited' = <<"Start">>
    /\ messages' = <<>>
    /\ resp' = None
    /\ fc' = NoCall
    /\ result' = None
    /\ outcome' = NoOutcome
    /\ gateway' = <<>>
    /\ dispatches' = <<>>
    /\ audit_start' = audit
    /\ UNCHANGED <<audit, side>>

Next ==
    \/ BuildConversation
    \/ FirstModelReply
    \/ DirectAnswer
    \/ ToolExecution
    \/ SecondModelReply
    \/ NextTurn

Spec == Init /\ [][Next]_vars

----------------------------------------------------------------------------
(* call_model on any conversation *)

\* Longest conversation given to call_model in SpecGateway.
MaxConversation == 3

\* The messages a conversation may hold: the two system messages of
\* chat_endpoint, a user message, an assistant tool call and its result.
SomeCall == [name |-> "get_news_for_city", arguments |-> [city |-> Pune]]
MessageKinds ==
    { SystemRole, FinalInstruction, UserMsg("Give me news of Pune"),
      AssistantCallMsg(SomeCall),
      FunctionMsg("get_news_for_city", [error |-> "Missing NEWSAPI_KEY in environment"]) }

Conversations ==
    UNION { [1..n -> MessageKinds] : n \in 0..MaxConversation }

InitGateway ==
    /\ MainIdle
    /\ input \in { [fn |-> "call_model", messages |-> c, functions |-> f] :
                     c \in Conversations, f \in BOOLEAN }
    /\ output = None
    /\ db = [rows |-> <<>>, lock |-> 0]
    /\ writers = <<>>
    /\ flows = <<>>
    /\ convs = <<>>

\* lines 15-51: call_model builds the payload it posts
PostPayload ==
    /\ input # None
    /\ input.fn = "call_model"
    /\ output = None
    /\ output' = [messages |-> Payload(input.messages, input.functions)]
    /\ UNCHANGED <<main, input, db, writers, flows, convs>>

NextGateway == PostPayload

SpecGateway == InitGateway /\ [][NextGateway]_vars

----------------------------------------------------------------------------
(* normalize_date on any date string *)

\* The numbers a date string may carry: days 0..MaxDay, months 0..MaxMonth,
\* a leap year and a common year.
MaxDay == 32
MaxMonth == 13
Years == {2024, 2026}

WrittenForms == {"iso", "dmy", "d_mon_y", "mon_d_y"}

DateInputs ==
    { DateStr(f, p, 0, 0, 0) :
        f \in {"empty", "today", "tomorrow", "other"}, p \in BOOLEAN }
    \cup { DateStr(f, p, y, m, d) :
             f \in WrittenForms, p \in BOOLEAN, y \in Years,
             m \in 0..MaxMonth, d \in 0..MaxDay }

InitDate ==
    /\ MainIdle
    /\ input \in { [fn |-> "normalize_date", date_str |-> d] : d \in DateInputs }
    /\ output = None
    /\ db = [rows |-> <<>>, lock |-> 0]
    /\ writers = <<>>
    /\ flows = <<>>
    /\ convs = <<>>

\* lines 11-65: one call of normalize_date
NormalizeDate ==
    /\ input # None
    /\ input.fn = "normalize_date"
    /\ output = None
    /\ output' = normalize_date(input.date_str)
    /\ UNCHANGED <<main, input, db, writers, flows, convs>>

NextDate == NormalizeDate

SpecDate == InitDate /\ [][NextDate]_vars

----------------------------------------------------------------------------
(* get_news_for_city on any page_size *)

\* page_size runs from PageArgSpan below zero to PageArgSpan above the
\* largest page; the provider may hold, and send, more than a page.
PageArgSpan == 2
PageArgs == (0 - PageArgSpan)..(MaxPageSize + PageArgSpan)
MaxFeed == MaxPageSize + PageArgSpan

\* A news provider that answers 200 with n articles.
NewsProvider(n) ==
    [weather_key |-> TRUE, news_key |-> TRUE, geo |-> "ok", http |-> "ok",
     in_window |-> TRUE, articles |-> n]

InitNews ==
    /\ MainIdle
    /\ input \in { [fn |-> "get_news_for_city",
                     args |-> [city |-> Pune, page_size |-> k],
                     articles |-> n] : k \in PageArgs, n \in 0..MaxFeed }
    /\ output = None
    /\ db = [rows |-> <<>>, lock |-> 0]
    /\ writers = <<>>
    /\ flows = <<>>
    /\ convs = <<>>

\* lines 318-333 and 195-232: the dispatcher runs get_news_for_city
GetNews ==
    /\ input # None
    /\ input.fn = "get_news_for_city"
    /\ output = None
    /\ output' = call_function_by_name("get_news_for_city", input.args,
                                       NewsProvider(input.articles))
    /\ UNCHANGED <<main, input, db, writers, flows, convs>>

NextNews == GetNews

SpecNews == InitNews /\ [][NextNews]_vars

----------------------------------------------------------------------------
(* log_call under concurrent turns: each call opens its own connection to the
   one database file; sqlite lets one connection at a time hold the write
   lock, from its INSERT to its commit *)

\* The log_call calls that run concurrently in SpecAudit.
MaxWriters == 2

Writers == 1..MaxWriters

\* The rows the tools of the concurrent turns pass to log_call.
AuditRows ==
    { log_call("get_news_for_city", [city |-> Pune, page_size |-> DefaultPageSize],
               [error |-> "Missing NEWSAPI_KEY in environment"]),
      log_call("get_weather_for_date", [city |-> Pune, date |-> DIsoToday],
               [error |-> "Missing OPENWEATHER_API_KEY in environment"]) }

\* A row of function_calls: id INTEGER PRIMARY KEY AUTOINCREMENT and the rest.
TableRow(id, rec) == [id |-> id, rec |-> rec]

\* The table when the concurrent calls start: empty, or holding one row.
ExistingTables ==
    {<<>>} \cup { <<TableRow(1, rec)>> : rec \in AuditRows }

InitAudit ==
    /\ MainIdle
    /\ \E existing \in ExistingTables :
          /\ input = [fn |-> "log_call", existing |-> existing]
          /\ db = [rows |-> existing, lock |-> 0]
    /\ output = None
    /\ writers \in [Writers -> { [pc |-> "connect", row |-> rec, txn |-> <<>>] :
                                    rec \in AuditRows }]
    /\ flows = <<>>
    /\ convs = <<>>

WriterAt(w, at) == writers[w].pc = at

\* line 46: conn = sqlite3.connect(DB_PATH)
Connect(w) ==
    /\ WriterAt(w, "connect")
    /\ writers' = [writers EXCEPT ![w].pc = "insert"]
    /\ UNCHANGED <<main, input, output, db, flows, convs>>

\* A mutant of Insert: the INSERT does not wait for, nor take, the write lock.
Insert_NoLock(w) ==
    /\ WriterAt(w, "insert")
    /\ writers' = [writers EXCEPT
                       ![w].pc = "commit",
                       ![w].txn = Append(db.rows,
                                         TableRow(Len(db.rows) + 1, writers[w].row))]
    /\ UNCHANGED <<main, input, output, db, flows, convs>>

\* lines 47-51: cur.execute("INSERT ..."): the connection begins a transaction,
\* takes the write lock when no other connection holds it, and adds the row,
\* numbered after the last one, to its own uncommitted copy of the table
Insert(w) ==
    /\ WriterAt(w, "insert")
    /\ db.lock = 0
    /\ db' = [db EXCEPT !.lock = w]
    /\ writers' = [writers EXCEPT
                       ![w].pc = "commit",
                       ![w].txn = Append(db.rows,
                                         TableRow(Len(db.rows) + 1, writers[w].row))]
    /\ UNCHANGED <<main, input, output, flows, convs>>

\* lines 47-51: the lock stayed with another connection for the whole busy
\* timeout: cur.execute raises sqlite3.OperationalError, nothing is written
Busy(w) ==
    /\ WriterAt(w, "insert")
    /\ db.lock \notin {0, w}
    /\ writers' = [writers EXCEPT ![w].pc = "failed"]
    /\ UNCHANGED <<main, input, output, db, flows, convs>>

\* line 52: conn.commit(): the transaction's table becomes the file's table
\* and the lock is released
Commit(w) ==
    /\ WriterAt(w, "commit")
    /\ db' = [rows |-> writers[w].txn, lock |-> 0]
    /\ writers' = [writers EXCEPT ![w].pc = "close"]
    /\ UNCHANGED <<main, input, output, flows, convs>>

\* line 53: conn.close()
Close(w) ==
    /\ WriterAt(w, "close")
    /\ writers' = [writers EXCEPT ![w].pc = "done"]
    /\ UNCHANGED <<main, input, output, db, flows, convs>>

NextAudit ==
    \E w \in Writers :
        \/ Connect(w)
        \/ Insert(w)
        \/ Busy(w)
        \/ Commit(w)
        \/ Close(w)

SpecAudit == InitAudit /\ [][NextAudit]_vars

----------------------------------------------------------------------------
(* chat_endpoint under concurrent requests: each run has its own locals, and
   its "messages" names a list created by that run *)

\* The requests served concurrently in SpecTurns.
MaxRequests == 2

Requests == 1..MaxRequests

\* payload.message of request t, and the tool call the model answers it with.
RequestText(t) == [request |-> t]
RequestCall(t) ==
    [name |-> "convert_currency",
     arguments |-> [amount |-> 100 * t, base |-> Inr, target |-> Usd]]

\* Pass 1 answers request t with its tool call or with prose; pass 2 with prose.
RequestReplies(t) ==
    { [json |-> "object",
       obj |-> [tool |-> JStr(RequestCall(t).name),
                arguments |-> RequestCall(t).arguments]],
      [json |-> "invalid"] }

\* The rates service answers 200, or an error status with a JSON body.
RateEnvs == { e \in NewsEnvs : e.news_key /\ e.articles = 0 /\ e.http \in {"ok", "non200_json"} }

\* A mutant of ConvKey: every run uses one and the same list.
ConvKey_Shared(t) == 1

\* line 24: messages = [...] is a list of the run that creates it
ConvKey(t) == t

InitTurns ==
    /\ MainIdle
    /\ input = None
    /\ output = None
    /\ db = [rows |-> <<>>, lock |-> 0]
    /\ writers = <<>>
    /\ flows = [t \in Requests |->
                  [pc |-> "Start", calls |-> <<>>, fc |-> NoCall, result |-> None,
                   outcome |-> NoOutcome]]
    /\ convs = [k \in Requests |-> <<>>]

FlowAt(t, at) == flows[t].pc = at

\* lines 24-35
FlowBuild(t) ==
    /\ FlowAt(t, "Start")
    /\ convs' = [convs EXCEPT ![ConvKey(t)] = <<SystemRole, UserMsg(RequestText(t))>>]
    /\ flows' = [flows EXCEPT ![t].pc = "AwaitingFirstModelReply"]
    /\ UNCHANGED <<main, input, output, db, writers>>

\* lines 40-43
FlowFirstReply(t) ==
    /\ FlowAt(t, "AwaitingFirstModelReply")
    /\ \E b \in Backend(RequestReplies(t)) :
         LET msgs == convs[ConvKey(t)]
             r == call_model(msgs, TRUE, b)
             call == IF r.ok THEN extract_function_call(r.val) ELSE Ok(NoCall)
             f == [flows[t] EXCEPT !.calls = Append(@, GatewayCall(msgs, TRUE, r))]
         IN
         flows' = [flows EXCEPT ![t] =
            IF ~r.ok
            THEN [f EXCEPT !.pc = "Failed", !.outcome = Failure(r.msg)]
            ELSE IF call.val = NoCall
            THEN [f EXCEPT !.pc = "Done",
                           !.outcome = [kind |-> "direct",
                                        response |-> r.val.message.content]]
            ELSE [f EXCEPT !.pc = "AwaitingToolExecution", !.fc = call.val]]
    /\ UNCHANGED <<main, input, output, db, writers, convs>>

\* lines 44-47
FlowToolExecution(t) ==
    /\ FlowAt(t, "AwaitingToolExecution")
    /\ \E env \in RateEnvs :
         LET r == call_function_by_name(flows[t].fc.name, flows[t].fc.arguments, env) IN
         flows' = [flows EXCEPT ![t] =
            IF r.ok
            THEN [@ EXCEPT !.pc = "AwaitingSecondModelReply", !.result = r.val]
            ELSE [@ EXCEPT !.pc = "Failed", !.outcome = Failure(r.msg)]]
    /\ UNCHANGED <<main, input, output, db, writers, convs>>

\* lines 49-71
FlowSecondReply(t) ==
    /\ FlowAt(t, "AwaitingSecondModelReply")
    /\ LET msgs == convs[ConvKey(t)] \o
                      <<AssistantCallMsg(flows[t].fc),
                        FunctionMsg(flows[t].fc.name, flows[t].result),
                        FinalInstruction>>
       IN
       /\ convs' = [convs EXCEPT ![ConvKey(t)] = msgs]
       /\ \E b \in Backend({[json |-> "invalid"]}) :
            LET r == call_model(msgs, FALSE, b)
                f == [flows[t] EXCEPT !.calls = Append(@, GatewayCall(msgs, FALSE, r))]
            IN
            flows' = [flows EXCEPT ![t] =
               IF r.ok
               THEN [f EXCEPT !.pc = "Done",
                              !.outcome = FunctionCallOutcome(flows[t].fc, flows[t].result,
                                                              r.val.message.content)]
               ELSE [f EXCEPT !.pc = "Failed", !.outcome = Failure(r.msg)]]
    /\ UNCHANGED <<main, input, output, db, writers>>

NextTurns ==
    \E t \in Requests :
        \/ FlowBuild(t)
        \/ FlowFirstReply(t)
        \/ FlowToolExecution(t)
        \/ FlowSecondReply(t)

SpecTurns == InitTurns /\ [][NextTurns]_vars

----------------------------------------------------------------------------
(* The claims *)

\* The dispatcher calls of the turn being served.
Dispatches == { dispatches[i] : i \in DOMAIN dispatches }

\* Failure classes of a dispatcher call: the name is not registered; the
\* callable could not be called with the cleaned arguments.
UnknownTool(d) == ~d.ret.ok /\ d.name \notin ToolNames
ArgumentError(d) == ~d.ret.ok /\ d.name \in ToolNames /\ d.ret.exc = "TypeError"

IsErrorResult(v) == "error" \in DOMAIN v

\* C1: every dispatcher call that returns a result (an {"error": ...} result
\* included) has appended exactly one row to the audit log, and a call that
\* fails with UnknownTool or ArgumentError has appended none.
C1_OneAuditRowPerReturnedCall ==
    \A d \in Dispatches :
        /\ d.ret.ok => Len(audit) = Len(d.audit_before) + 1
        /\ (UnknownTool(d) \/ ArgumentError(d)) => audit = d.audit_before

\* C2: the rows a completed tool invocation appends carry the tool name of the
\* call, the raw arguments as the model supplied them (undeclared keys kept,
\* values not normalized) and the result the dispatcher returns; a turn that
\* ends in function_call has one such row and reports that result.
C2_AuditRowHoldsRawArguments ==
    \A d \in Dispatches :
        /\ \A k \in DOMAIN d.ret.logs :
              /\ d.ret.logs[k].function_name = d.name
              /\ d.ret.logs[k].arguments_json = d.arguments
              /\ d.ret.logs[k].result_json = d.ret.val
        /\ d.ret.ok => result = d.ret.val
        /\ outcome.kind = "function_call" =>
              /\ outcome.function_result = d.ret.val
              /\ Len(d.ret.logs) = 1

\* The normalizers a tool applies to its arguments reject one of them.
NormalizerRejects(name, args) ==
    CASE name = "get_weather_for_date" ->
            ~normalize_city(args.city).ok \/ ~normalize_date(args.date).ok
      [] name = "get_news_for_city" -> ~normalize_city(args.city).ok
      [] name = "convert_currency" ->
            ~normalize_currency(args.base).ok \/ ~normalize_currency(args.target).ok

\* C3: when a normalizer rejects an argument of the turn's tool call, the
\* dispatcher returns an {"error": ...} result, the turn is not aborted, and
\* once it is done its outcome is function_call after a second model pass.
C3_NormalizerErrorStaysInResult ==
    \A d \in Dispatches :
        (d.ret.invoked /\ NormalizerRejects(d.name, d.ret.cleaned_args)) =>
            /\ d.ret.ok
            /\ IsErrorResult(d.ret.val)
            /\ (pc = "Failed" => Len(gateway) = 2)
            /\ (pc = "Done" => outcome.kind = "function_call" /\ Len(gateway) = 2)

\* A reply content that is a tool-call payload: a JSON object whose "tool" is
\* a non-empty name.
IsToolCallPayload(content) ==
    /\ content.json = "object"
    /\ "tool" \in DOMAIN content.obj
    /\ content.obj.tool # JNull
    /\ content.obj.tool.str # ""

\* The model backend has answered pass 1 with this content.
FirstReplyIs(content) ==
    /\ Len(gateway) >= 1
    /\ gateway[1].ok
    /\ resp # None
    /\ resp.message.content = content

\* C4: for every reply of pass 1 that is not a tool-call payload,
\* extract_function_call returns none without raising: the turn answers direct
\* with the raw reply text and the dispatcher is not called.
C4_NoToolReplyIsDirectAnswer ==
    \A content \in FirstReplies :
        (FirstReplyIs(content) /\ ~IsToolCallPayload(content)) =>
            /\ pc \in {"DirectAnswer", "Done"}
            /\ fc = NoCall
            /\ dispatches = <<>>
            /\ (pc = "Done" => outcome = [kind |-> "direct", response |-> content])

\* A request the tool made found its service unreachable or got a status
\* other than success.
ServiceFailed(r) ==
    \E k \in DOMAIN r.requests :
        r.requests[k].outcome \in {"unreachable", "non200", "non200_json", "non200_not_json"}

\* C5: when a request of the tool finds its data service unreachable or gets a
\* non-success status, the tool does not raise: the dispatcher returns an
\* {"error": ...} result and the turn goes on to the second model pass.
C5_ServiceFailureStaysInResult ==
    \A d \in Dispatches :
        ServiceFailed(d.ret) =>
            /\ d.ret.ok
            /\ IsErrorResult(d.ret.val)
            /\ (pc = "Failed" => Len(gateway) = 2)
            /\ (pc = "Done" => outcome.kind = "function_call")

\* C6: when the dispatcher call of the turn fails with UnknownTool or with
\* ArgumentError, the turn is a failure with a server error status: there was
\* no second gateway call, the conversation is still the one sent in pass 1,
\* and no direct or function_call outcome is returned.
C6_DispatcherFailureFailsTurn ==
    \A d \in Dispatches :
        (UnknownTool(d) \/ ArgumentError(d)) =>
            /\ pc = "Failed"
            /\ outcome.kind = "failure"
            /\ outcome.status = 500
            /\ Len(gateway) = 1
            /\ messages = gateway[1].messages
            /\ Len(messages) = 2

C6_Witness ==
    /\ pc = "Failed"
    /\ \E d \in Dispatches : ArgumentError(d) /\ d.arguments # NoArgs

\* C7: a dispatcher call with a name that is not a key of the registry fails
\* with UnknownTool (ValueError, "Unknown function") whatever the arguments,
\* no tool executable is invoked, and the audit log is as it was before.
C7_UnknownToolLeavesAuditUnchanged ==
    \A d \in Dispatches :
        d.name \notin DOMAIN FUNCTION_REGISTRY =>
            /\ ~d.ret.ok
            /\ d.ret.exc = "ValueError"
            /\ d.ret.msg = "Unknown function"
            /\ ~d.ret.invoked
            /\ d.ret.requests = <<>>
            /\ d.ret.logs = <<>>
            /\ audit = d.audit_before

C7_Witness ==
    \E d \in Dispatches :
        /\ d.name \notin DOMAIN FUNCTION_REGISTRY
        /\ d.arguments # NoArgs
        /\ d.audit_before # <<>>

\* C8: whenever the dispatcher calls a tool executable, the mapping it
\* passes has exactly the keys of the raw arguments that the tool's parameter
\* schema declares, each with its raw value; every other key is dropped.
C8_OnlyDeclaredKeysReachTool ==
    \A d \in Dispatches :
        d.name \in DOMAIN FUNCTION_REGISTRY =>
            LET declared == FUNCTION_REGISTRY[d.name].properties
                passed == d.ret.cleaned_args
            IN
            /\ DOMAIN passed \subseteq declared
            /\ DOMAIN passed = declared \cap DOMAIN d.arguments
            /\ \A k \in DOMAIN passed : passed[k] = d.arguments[k]

C8_Witness ==
    \E d \in Dispatches :
        /\ d.name = "get_weather_for_date"
        /\ d.ret.invoked
        /\ DOMAIN d.arguments = {"city", "date", "extra"}
        /\ DOMAIN d.ret.cleaned_args = {"city", "date"}

\* The controller's steps: from each state, the states that may follow it.
\* A failure ends the turn from any of the three waiting states.
ControllerEdges ==
    { <<"Start", "AwaitingFirstModelReply">>,
      <<"AwaitingFirstModelReply", "DirectAnswer">>,
      <<"AwaitingFirstModelReply", "AwaitingToolExecution">>,
      <<"DirectAnswer", "Done">>,
      <<"AwaitingToolExecution", "AwaitingSecondModelReply">>,
      <<"AwaitingSecondModelReply", "Done">>,
      <<"AwaitingFirstModelReply", "Failed">>,
      <<"AwaitingToolExecution", "Failed">>,
      <<"AwaitingSecondModelReply", "Failed">> }

\* C9: a turn goes through the controller states in order and visits none
\* twice; it makes at most two gateway calls and at most one dispatcher call;
\* a turn that is done has serviced one tool call if its outcome is
\* function_call (whatever the second reply looks like) and none if direct.
C9_StatesInOrderCallsBounded ==
    /\ visited[1] = "Start"
    /\ visited[Len(visited)] = pc
    /\ \A i \in 1..(Len(visited) - 1) : <<visited[i], visited[i + 1]>> \in ControllerEdges
    /\ \A i, j \in DOMAIN visited : i # j => visited[i] # visited[j]
    /\ Len(gateway) <= 2
    /\ Len(dispatches) <= 1
    /\ (pc = "Done" /\ outcome.kind = "function_call") =>
            Len(dispatches) = 1 /\ Len(gateway) = 2
    /\ (pc = "Done" /\ outcome.kind = "direct") =>
            Len(dispatches) = 0 /\ Len(gateway) = 1

C9_Witness ==
    /\ pc = "Done"
    /\ outcome.kind = "function_call"
    /\ IsToolCallPayload(outcome.response)
    /\ Len(dispatches) = 1
    /\ Len(gateway) = 2

\* In a conversation, every tool-result message comes after an assistant
\* message that records a call of the tool it names.
ToolResultsFollowCalls(conversation) ==
    \A j \in DOMAIN conversation :
        conversation[j].role = "function" =>
            \E i \in 1..(j - 1) :
                /\ conversation[i].role = "assistant"
                /\ "function_call" \in DOMAIN conversation[i]
                /\ conversation[i].function_call.name = conversation[j].name

\* C10: every conversation handed to call_model, in pass 1 and in pass 2, and
\* what call_model posts of it, has each tool-result message preceded by an
\* assistant tool-call message naming the same tool.
C10_ToolResultFollowsItsCall ==
    \A k \in DOMAIN gateway :
        /\ ToolResultsFollowCalls(gateway[k].messages)
        /\ ToolResultsFollowCalls(gateway[k].sent)

C10_Witness ==
    /\ Len(gateway) = 2
    /\ \E j \in DOMAIN gateway[2].messages : gateway[2].messages[j].role = "function"

IsSystem(msg) == msg.role = "system"

\* C11: with tool specs, call_model posts the tool-calling instruction
\* followed by the non-system messages of the conversation it was given, in
\* their order (every prior system message is replaced, wherever it stands);
\* without tool specs it posts the conversation as given.
C11_InstructionReplacesSystemMessages ==
    (input # None /\ output # None) =>
        IF input.functions
        THEN output.messages =
                <<ToolInstruction>> \o SelectSeq(input.messages, LAMBDA msg : ~IsSystem(msg))
        ELSE output.messages = input.messages

\* The arguments a tool-call payload carries: the mapping under "arguments",
\* the empty mapping when the key is absent.
PayloadArguments(content) ==
    IF "arguments" \in DOMAIN content.obj THEN content.obj.arguments ELSE NoArgs

\* C12: a completed turn answers one of two shapes.  When pass 1 yields no
\* tool call: {direct, response = the first reply's text}, after one model
\* call and no dispatch.  When it yields one: {function_call, function = the
\* tool name of the first reply, function_args = the arguments of the first
\* reply, function_result = what the dispatcher returned, response = the second
\* reply's text}.
C12_OutcomeShapes ==
    pc = "Done" =>
        LET first == gateway[1].reply IN
        IF ~IsToolCallPayload(first)
        THEN /\ Len(gateway) = 1
             /\ dispatches = <<>>
             /\ outcome = [kind |-> "direct", response |-> first]
        ELSE /\ Len(gateway) = 2
             /\ Len(dispatches) = 1
             /\ outcome = [kind |-> "function_call",
                           function |-> first.obj.tool.str,
                           function_args |-> PayloadArguments(first),
                           function_result |-> dispatches[1].ret.val,
                           response |-> gateway[2].reply]

\* A completed turn whose tool was bound to fewer keys than the reply carried.
C12_Witness ==
    /\ pc = "Done"
    /\ outcome.kind = "function_call"
    /\ outcome.function_args # dispatches[1].ret.cleaned_args
    /\ ~IsErrorResult(outcome.function_result)

\* C13: a model call that fails is the turn's last step: the turn has failed
\* and answers no outcome.  No call is repeated: a turn makes at most one
\* pass-1 call, one dispatch and one pass-2 call, in this order, and after a
\* failed pass 2 the audit log still holds what the dispatch appended.
C13_BackendFailureFailsTurnNoRetry ==
    /\ Len(gateway) <= 2
    /\ Len(dispatches) <= 1
    /\ \A k \in DOMAIN gateway :
          /\ gateway[k].functions = (k = 1)
          /\ ~gateway[k].ok =>
                /\ k = Len(gateway)
                /\ pc = "Failed"
                /\ outcome.kind = "failure"
                /\ outcome.status = 500
    /\ Len(gateway) = 2 =>
          /\ gateway[1].ok
          /\ Len(dispatches) = 1
          /\ dispatches[1].ret.ok
          /\ audit = dispatches[1].audit_before \o dispatches[1].ret.logs

\* Pass 2 failed after a tool wrote its audit row.
C13_Witness ==
    /\ Len(gateway) = 2
    /\ ~gateway[2].ok
    /\ pc = "Failed"
    /\ Len(dispatches[1].ret.logs) = 1

RolesOf(conversation) == [i \in DOMAIN conversation |-> conversation[i].role]

\* C16: the conversation of a turn only grows.  It is built as <<system role
\* message, user message>>; pass 1 is handed these two messages and leaves
\* them in place; until pass 2 nothing is added; pass 2 is handed, and posts
\* unchanged, the same two messages followed by the assistant message holding
\* the tool call, the function message holding the JSON text of the
\* dispatcher's result and the final system instruction.
C16_ConversationAppendOnly ==
    /\ pc = "Start" => messages = <<>>
    /\ pc # "Start" =>
          /\ Len(messages) >= 2
          /\ messages[1] = SystemRole
          /\ messages[2].role = "user"
          /\ messages[2].content \in { Text(u) : u \in UserMessages }
    /\ Len(gateway) >= 1 => gateway[1].messages = SubSeq(messages, 1, 2)
    /\ (pc # "Start" /\ Len(gateway) < 2) => Len(messages) = 2
    /\ Len(gateway) = 2 =>
          /\ RolesOf(messages) = <<"system", "user", "assistant", "function", "system">>
          /\ messages[3].content = None
          /\ messages[3].function_call =
                [name |-> dispatches[1].name, arguments |-> dispatches[1].arguments]
          /\ messages[4].name = dispatches[1].name
          /\ messages[4].content = JsonDumps(dispatches[1].ret.val)
          /\ messages[5] = FinalInstruction
          /\ gateway[2].messages = messages
          /\ gateway[2].sent = messages

\* Pass 2 has been sent the five messages, the fourth carrying a tool's data.
C16_Witness ==
    /\ Len(gateway) = 2
    /\ Len(gateway[2].sent) = 5
    /\ gateway[2].sent[4].role = "function"
    /\ ~IsErrorResult(dispatches[1].ret.val)

\* C17: a dispatch that returned a result has appended exactly one audit row,
\* naming the tool, by the time chat_endpoint holds the result: the row is in
\* the audit log while the conversation still has its two initial messages
\* and only pass 1 has been sent.  A turn answered direct leaves the audit
\* log as it found it.
C17_AuditRowBeforeResultIsUsed ==
    /\ pc = "AwaitingSecondModelReply" =>
          /\ Len(audit) = Len(audit_start) + 1
          /\ SubSeq(audit, 1, Len(audit_start)) = audit_start
          /\ audit[Len(audit)].function_name = fc.name
          /\ Len(messages) = 2
          /\ Len(gateway) = 1
    /\ (pc = "Done" /\ outcome.kind = "direct") => audit = audit_start

InvalidInput(r) == ~r.ok /\ r.exc = "ValueError"

NoPatternMessage == "Invalid date format. Use YYYY-MM-DD or today/tomorrow."

\* C18: normalize_date answers by the first pattern its input matches.  The
\* literals give today's and tomorrow's date.  A string writing the calendar
\* date y-m-d as YYYY-MM-DD, as D-M-YYYY (day first) or in a textual format
\* gives the ISO date y-m-d, the same for every form.  A D-M-YYYY string whose
\* numbers are no calendar date fails with the error of the date construction,
\* not with the error of an input that matches no pattern: no later pattern is
\* tried.  An empty string and a string matching no pattern (an impossible ISO
\* or textual date, an ISO date with surrounding blanks, other text) fail with
\* InvalidInput.
C18_FirstMatchingPatternDecides ==
    (input # None /\ input.fn = "normalize_date" /\ output # None) =>
        LET s == input.date_str
            date == Ok(DateStr("iso", FALSE, s.y, s.m, s.d))
        IN
        CASE s.form = "today" ->
                output = Ok(DateStr("iso", FALSE, Today.y, Today.m, Today.d))
          [] s.form = "tomorrow" ->
                output = Ok(DateStr("iso", FALSE,
                                    NextDay(Today).y, NextDay(Today).m, NextDay(Today).d))
          [] s.form = "dmy" ->
                IF ValidDate(s.y, s.m, s.d)
                THEN output = date
                ELSE InvalidInput(output) /\ output.msg # NoPatternMessage
          [] s.form = "iso" ->
                IF ValidDate(s.y, s.m, s.d) /\ ~s.pad
                THEN output = date
                ELSE InvalidInput(output) /\ output.msg = NoPatternMessage
          [] s.form \in {"d_mon_y", "mon_d_y"} ->
                IF ValidDate(s.y, s.m, s.d)
                THEN output = date
                ELSE InvalidInput(output) /\ output.msg = NoPatternMessage
          [] s.form = "empty" -> InvalidInput(output)
          [] OTHER -> InvalidInput(output) /\ output.msg = NoPatternMessage

\* 31-04-2024 was given: the positional pattern matched and the date
\* construction failed.
C18_Witness ==
    /\ input # None
    /\ input.fn = "normalize_date"
    /\ input.date_str.form = "dmy"
    /\ input.date_str.d = 31
    /\ input.date_str.m = 4
    /\ output # None
    /\ ~output.ok

\* C19: whatever integer page_size get_news_for_city is given, the pageSize
\* of its request to the provider is in 1..20 and is page_size itself when
\* that is in 1..20; the result's count is the length of its articles and at
\* most the pageSize sent.
C19_PageSizeClamped ==
    (input # None /\ input.fn = "get_news_for_city" /\ output # None) =>
        /\ output.ok
        /\ Len(output.requests) = 1
        /\ LET sent == output.requests[1].pageSize
               res == output.val
           IN
           /\ sent \in 1..20
           /\ (input.args.page_size \in 1..20 => sent = input.args.page_size)
           /\ res.count = Len(res.articles)
           /\ res.count <= sent

\* page_size was zero or negative and the provider held articles: one came back.
C19_Witness ==
    /\ input # None
    /\ input.fn = "get_news_for_city"
    /\ input.args.page_size <= 0
    /\ output # None
    /\ output.val.count = 1

\* The log_call calls whose commit has returned.
Committed == { w \in DOMAIN writers : writers[w].pc \in {"close", "done"} }

\* C14: in every state of every interleaving of concurrent log_call calls,
\* the table is the rows it held at the start, unchanged and in place,
\* followed by exactly one row per call that has committed, each with the
\* name, arguments and result that call was given; ids are distinct.
C14_NoAuditRowLostOrCorrupted ==
    (input # None /\ input.fn = "log_call") =>
        LET old == Len(input.existing)
            new == (old + 1)..Len(db.rows)
        IN
        /\ Len(db.rows) = old + Cardinality(Committed)
        /\ SubSeq(db.rows, 1, old) = input.existing
        /\ \A i \in DOMAIN db.rows : db.rows[i].id = i
        /\ \A rec \in AuditRows :
              Cardinality({ i \in new : db.rows[i].rec = rec })
                  = Cardinality({ w \in Committed : writers[w].row = rec })

\* Every call has finished and the last caller's row was committed before the
\* first caller's: the calls overlapped.
C14_Witness ==
    /\ input # None
    /\ input.fn = "log_call"
    /\ \A w \in DOMAIN writers : writers[w].pc = "done"
    /\ writers[1].row # writers[MaxWriters].row
    /\ db.rows[Len(input.existing) + 1].rec = writers[MaxWriters].row

\* What the rates service can make of the tool call of request t.
OwnResults(t) ==
    { call_function_by_name(RequestCall(t).name, RequestCall(t).arguments, env).val :
        env \in RateEnvs }

\* The messages a conversation of request t may hold: the fixed system
\* messages, its user message, its tool call and a result of that call.
OwnMessages(t) ==
    { SystemRole, ToolInstruction, FinalInstruction, UserMsg(RequestText(t)),
      AssistantCallMsg(RequestCall(t)) }
    \cup { FunctionMsg(RequestCall(t).name, res) : res \in OwnResults(t) }

OnlyOwn(t, conversation) ==
    /\ \A i \in DOMAIN conversation : conversation[i] \in OwnMessages(t)
    /\ \E i \in DOMAIN conversation : conversation[i] = UserMsg(RequestText(t))

\* C15: under every interleaving of concurrent requests, each conversation a
\* request hands to call_model, and what call_model posts of it, in pass 1 and
\* in pass 2, holds that request's user message and no message of another
\* request; the tool-result message of pass 2 carries the result that request
\* obtained; a function_call outcome reports the request's own tool name,
\* arguments and result.
C15_TurnsShareNoConversation ==
    \A t \in DOMAIN flows :
        /\ \A k \in DOMAIN flows[t].calls :
              /\ OnlyOwn(t, flows[t].calls[k].messages)
              /\ OnlyOwn(t, flows[t].calls[k].sent)
              /\ Len(flows[t].calls[k].messages) = (IF k = 1 THEN 2 ELSE 5)
              /\ k = 2 => flows[t].calls[k].sent[4].content = JsonDumps(flows[t].result)
        /\ flows[t].outcome.kind = "function_call" =>
              /\ flows[t].outcome.function = RequestCall(t).name
              /\ flows[t].outcome.function_args = RequestCall(t).arguments
              /\ flows[t].outcome.function_result = flows[t].result
              /\ flows[t].result \in OwnResults(t)

\* All the concurrent requests completed with tool data, each with its own.
C15_Witness ==
    /\ flows # <<>>
    /\ \A t \in DOMAIN flows :
          /\ flows[t].pc = "Done"
          /\ flows[t].outcome.kind = "function_call"
          /\ ~IsErrorResult(flows[t].result)
    /\ flows[1].result # flows[MaxRequests].result

====
